---- MODULE Spec2Model ----
(***************************************************************************)
(* Book reader: hierarchical text position (paragraph, sentence, word),    *)
(* the segmentation it is resolved against, the autoscroll timer and the   *)
(* speech (TTS) adapter, as implemented by useTextNavigation, useTTS, the  *)
(* BookReaderContext reducer and the BookReader component.                 *)
(*                                                                         *)
(* A text is a sequence of one-character strings.                          *)
(***************************************************************************)
EXTENDS Integers, Sequences, FiniteSets, TLC

VARIABLES
    text,        \* state.content.text: the document handed to both hooks
    position,    \* useTextNavigation: the position state (all queued updaters applied)
    rendered,    \* the position captured by the closures of the last committed render
    pending,     \* number of setPosition calls queued since the last committed render
    storePos,    \* context store: progress.position
    isPlaying,   \* context store: isPlaying (autoscroll)
    isSpeaking,  \* context store: isSpeaking (speech mode)
    timer,       \* useTextNavigation: an interval timer is armed
    timerDelay,  \* useTextNavigation: the delay of that interval in ms (0: no timer)
    autoScrollSpeed, \* context store: preferences.autoScrollSpeed (words per minute)
    isLoading,   \* useTTS: isLoading
    requests,    \* useTTS: synthesis requests in flight, in the order issued; the
                 \* record flagged current owns abortControllerRef.current
    audio,       \* useTTS: audioRef.current
    keydown,     \* a keydown event the container's handler has handled and the
                 \* window listener has not yet (NoKey: none)
    currentPage, \* TextDisplay: currentPage, the page of paragraphs shown
    intervals    \* useTextNavigation: number of setInterval timers not yet cleared

vars == <<text, position, rendered, pending, storePos, isPlaying, isSpeaking,
          timer, timerDelay, autoScrollSpeed, isLoading, requests, audio, keydown,
          currentPage, intervals>>

----------------------------------------------------------------------------
(* Characters *)

NL == "\n"
SP == " "

\* JavaScript \s restricted to the characters the documents use
IsSpace(c) == c \in {SP, NL, "\t", "\r"}

\* [.!?]
IsEnd(c) == c \in {".", "!", "?"}

\* [A-Z]
IsUpper(c) == c \in {"A", "B", "C", "D", "E", "F", "G", "H", "I", "J", "K", "L", "M",
                     "N", "O", "P", "Q", "R", "S", "T", "U", "V", "W", "X", "Y", "Z"}

\* [0-9]
IsDigit(c) == c \in {"0", "1", "2", "3", "4", "5", "6", "7", "8", "9"}

----------------------------------------------------------------------------
(* String primitives *)

\* the least element of a non-empty set of indices, and its k-th smallest element
Min(S) == CHOOSE i \in S : \A j \in S : i <= j

Nth(S, k) == CHOOSE i \in S : Cardinality({j \in S : j < i}) = k - 1

\* first index >= i of s that holds no newline (Len(s)+1 if none): the end of a \n+ match
SkipNewlines(s, i) == Min({k \in i..Len(s) : s[k] # NL} \cup {Len(s) + 1})

\* first index >= i of s that holds no whitespace: the end of a \s+ match
SkipSpaces(s, i) == Min({k \in i..Len(s) : ~IsSpace(s[k])} \cup {Len(s) + 1})

\* String.prototype.trim
TrimLeft(s) == SubSeq(s, SkipSpaces(s, 1), Len(s))

TrimRight(s) ==
    LET kept == {k \in 1..Len(s) : ~IsSpace(s[k])}
    IN IF kept = {} THEN <<>> ELSE SubSeq(s, 1, CHOOSE k \in kept : \A m \in kept : m <= k)

Trim(s) == TrimRight(TrimLeft(s))

\* s.split(separator): seps holds the index at which each match of the separator
\* starts and starts the index after each match, together with 1; a piece runs from
\* its start to the next match
Pieces(s, seps, starts) ==
    [k \in 1..Cardinality(starts) |->
        LET from == Nth(starts, k)
        IN SubSeq(s, from, Min({j \in seps : j >= from} \cup {Len(s) + 1}) - 1)]

\* s.split(/\n+/)
SplitParagraphs(s) ==
    LET seps == {j \in 1..Len(s) : s[j] = NL /\ (j = 1 \/ s[j - 1] # NL)}
    IN Pieces(s, seps, {1} \cup {SkipNewlines(s, j) : j \in seps})

\* s.split(/(?<=[.!?])\s+/): a run of whitespace splits when it follows . ! or ?
SplitAfterEnd(s) ==
    LET seps == {j \in 2..Len(s) : IsSpace(s[j]) /\ IsEnd(s[j - 1])}
    IN Pieces(s, seps, {1} \cup {SkipSpaces(s, j) : j \in seps})

\* s.match(/\S+/g) || []: the maximal runs of non-whitespace
\* the indices at which a match of \S+ starts, and the last index of the match that
\* starts at i
WordStarts(s) ==
    {i \in 1..Len(s) : ~IsSpace(s[i]) /\ (i = 1 \/ IsSpace(s[i - 1]))}

WordEnd(s, i) ==
    CHOOSE j \in i..Len(s) :
        /\ \A m \in i..j : ~IsSpace(s[m])
        /\ (j = Len(s) \/ IsSpace(s[j + 1]))

MatchWords(s) ==
    LET starts == WordStarts(s)
    IN [k \in 1..Cardinality(starts) |->
           SubSeq(s, Nth(starts, k), WordEnd(s, Nth(starts, k)))]

\* s holds the literal w at index i
HasAt(s, i, w) ==
    /\ i >= 1
    /\ i + Len(w) - 1 <= Len(s)
    /\ SubSeq(s, i, i + Len(w) - 1) = w

\* a sentence-end test that knows the full stop only
EndsWithPeriod(part) == part # <<>> /\ part[Len(part)] = "."

\* /[.!?]$/.test(part)
EndsWithEnd(part) == part # <<>> /\ IsEnd(part[Len(part)])

\* /Mr\.|Mrs\.|Dr\.|Ms\.|[A-Z]\.|[0-9]\.$/.test(part): the $ binds to the last
\* alternative only, the others match anywhere in the part
IsAbbreviation(part) ==
    \/ \E i \in 1..Len(part) :
          \/ HasAt(part, i, <<"M", "r", ".">>)
          \/ HasAt(part, i, <<"M", "r", "s", ".">>)
          \/ HasAt(part, i, <<"D", "r", ".">>)
          \/ HasAt(part, i, <<"M", "s", ".">>)
          \/ (i < Len(part) /\ IsUpper(part[i]) /\ part[i + 1] = ".")
    \/ (Len(part) >= 2 /\ IsDigit(part[Len(part) - 1]) /\ part[Len(part)] = ".")

\* a join that puts no space between the buffer and the part
JoinPartNoSpace(cur, part) == cur \o part

\* currentSentence + (currentSentence ? ' ' : '') + part
JoinPart(cur, part) == IF cur = <<>> THEN part ELSE cur \o <<SP>> \o part

\* the for loop of splitIntoSentences over parts[i..], with the sentences pushed so
\* far and the currentSentence buffer; then the flush of the remaining buffer
RECURSIVE SentenceLoop(_, _, _, _)
SentenceLoop(parts, i, sentences, cur) ==
    IF i > Len(parts)
    THEN (IF cur # <<>> THEN Append(sentences, Trim(cur)) ELSE sentences)
    ELSE LET part == Trim(parts[i]) IN
         IF part = <<>> THEN SentenceLoop(parts, i + 1, sentences, cur)
         ELSE IF EndsWithEnd(part) /\ ~IsAbbreviation(part)
              THEN SentenceLoop(parts, i + 1, Append(sentences, JoinPart(cur, part)), <<>>)
         ELSE SentenceLoop(parts, i + 1, sentences, JoinPart(cur, part))

\* sentences.filter(s => s.trim().length > 0).map(s => s.trim())
RECURSIVE FilterTrim(_)
FilterTrim(ss) ==
    IF ss = <<>> THEN <<>>
    ELSE IF Trim(Head(ss)) = <<>> THEN FilterTrim(Tail(ss))
    ELSE <<Trim(Head(ss))>> \o FilterTrim(Tail(ss))

\* useTextNavigation.splitIntoSentences
splitIntoSentences(t) ==
    LET trimmedText == Trim(t) IN
    IF trimmedText = <<>> THEN <<>>
    ELSE FilterTrim(SentenceLoop(SplitAfterEnd(trimmedText \o <<SP>>), 1, <<>>, <<>>))

----------------------------------------------------------------------------
(* Positions and the derived segmentation of useTextNavigation *)

\* ReadingPosition
Pos(p, s, w) == [paragraphIndex |-> p, sentenceIndex |-> s, wordIndex |-> w]

\* the initial value of useState<ReadingPosition>
StartPos == Pos(0, 0, 0)

\* array[k] of a JavaScript array (zero-based); <<>> stands for undefined, which the
\* callers below test with the falsy checks of the code
At(arr, k) == IF k >= 0 /\ k < Len(arr) THEN arr[k + 1] ELSE <<>>

Defined(arr, k) == k >= 0 /\ k < Len(arr)

\* const paragraphs = text.split(/\n+/)
paragraphs(t) == SplitParagraphs(t)

\* paragraphs[position.paragraphIndex] || ''
getCurrentParagraph(t, pos) == At(paragraphs(t), pos.paragraphIndex)

getCurrentSentences(t, pos) == splitIntoSentences(getCurrentParagraph(t, pos))

\* currentSentence ? currentSentence.match(/\S+/g) || [] : []
getCurrentWords(t, pos) ==
    MatchWords(At(getCurrentSentences(t, pos), pos.sentenceIndex))

\* The result of one call of a move operation: "set" when it calls setPosition (pos is
\* what the updater returns for prev), "noop" when it calls nothing, "throw" when
\* it raises a TypeError before calling setPosition.
Set(pos) == [outcome |-> "set", pos |-> pos]
Noop(prev) == [outcome |-> "noop", pos |-> prev]
Throw(prev) == [outcome |-> "throw", pos |-> prev]

----------------------------------------------------------------------------
(* Variants with a seeded fault, used to show that a property depends on the code *)

\* moveToNextWord that treats the word after the last one as a word of the sentence
moveToNextWordPastEnd(t, snap, prev) ==
    LET words == getCurrentWords(t, snap)
        sentences == getCurrentSentences(t, snap)
    IN IF snap.wordIndex < Len(words)
       THEN Set([prev EXCEPT !.wordIndex = prev.wordIndex + 1])
       ELSE IF snap.sentenceIndex < Len(sentences) - 1
       THEN Set([prev EXCEPT !.sentenceIndex = prev.sentenceIndex + 1, !.wordIndex = 0])
       ELSE IF snap.paragraphIndex < Len(paragraphs(t)) - 1
       THEN Set(Pos(prev.paragraphIndex + 1, 0, 0))
       ELSE Noop(prev)

\* moveToNextWord that wraps to the start of the document at its end
moveToNextWordWrapping(t, snap, prev) ==
    LET words == getCurrentWords(t, snap)
        sentences == getCurrentSentences(t, snap)
    IN IF snap.wordIndex < Len(words) - 1
       THEN Set([prev EXCEPT !.wordIndex = prev.wordIndex + 1])
       ELSE IF snap.sentenceIndex < Len(sentences) - 1
       THEN Set([prev EXCEPT !.sentenceIndex = prev.sentenceIndex + 1, !.wordIndex = 0])
       ELSE IF snap.paragraphIndex < Len(paragraphs(t)) - 1
       THEN Set(Pos(prev.paragraphIndex + 1, 0, 0))
       ELSE Set(Pos(0, 0, 0))

\* moveToPreviousWord that lands on the first word of the sentence it enters
moveToPreviousWordFirst(t, snap, prev) ==
    IF snap.wordIndex > 0
    THEN Set([prev EXCEPT !.wordIndex = prev.wordIndex - 1])
    ELSE IF snap.sentenceIndex > 0
    THEN Set([prev EXCEPT !.sentenceIndex = prev.sentenceIndex - 1, !.wordIndex = 0])
    ELSE IF snap.paragraphIndex > 0
    THEN Set(Pos(prev.paragraphIndex - 1, 0, 0))
    ELSE Noop(prev)

\* onended that advances to the next sentence index whatever text it sees
onendedAdvancing(clo) ==
    Set([clo.pos EXCEPT !.sentenceIndex = clo.pos.sentenceIndex + 1, !.wordIndex = 0])

\* a reducer that drops the payload of UPDATE_POSITION
UpdatePositionDropped(stored, payload) == stored

\* fetch that ignores its signal
SucceedsIgnoringSignal(r, ok) == ok

\* moveToNextSentence that enters the next paragraph without looking at its sentences
moveToNextSentenceUnchecked(t, snap, prev) ==
    LET sentences == getCurrentSentences(t, snap)
        currentSentenceIndex == snap.sentenceIndex
    IN IF currentSentenceIndex < Len(sentences) - 1
       THEN Set([prev EXCEPT !.sentenceIndex = currentSentenceIndex + 1, !.wordIndex = 0])
       ELSE IF snap.paragraphIndex < Len(paragraphs(t)) - 1
       THEN Set(Pos(prev.paragraphIndex + 1, 0, 0))
       ELSE Noop(prev)

----------------------------------------------------------------------------
(* The move operations of useTextNavigation *)

\* moveToNextWord: decides on the position of its closure (snap), updates prev
moveToNextWord(t, snap, prev) ==
    LET words == getCurrentWords(t, snap)
        sentences == getCurrentSentences(t, snap)
    IN IF snap.wordIndex < Len(words) - 1
       THEN Set([prev EXCEPT !.wordIndex = prev.wordIndex + 1])
       ELSE IF snap.sentenceIndex < Len(sentences) - 1
       THEN Set([prev EXCEPT !.sentenceIndex = prev.sentenceIndex + 1, !.wordIndex = 0])
       ELSE IF snap.paragraphIndex < Len(paragraphs(t)) - 1
       THEN Set(Pos(prev.paragraphIndex + 1, 0, 0))
       ELSE Noop(prev)

moveToNextSentence(t, snap, prev) ==
    LET sentences == getCurrentSentences(t, snap)
        currentSentenceIndex == snap.sentenceIndex
    IN IF currentSentenceIndex < Len(sentences) - 1
       THEN Set([prev EXCEPT !.sentenceIndex = currentSentenceIndex + 1, !.wordIndex = 0])
       ELSE IF snap.paragraphIndex < Len(paragraphs(t)) - 1
       THEN LET nextSentences ==
                    splitIntoSentences(At(paragraphs(t), snap.paragraphIndex + 1))
            IN IF Len(nextSentences) > 0
               THEN Set(Pos(prev.paragraphIndex + 1, 0, 0))
               ELSE Noop(prev)
       ELSE Noop(prev)

moveToNextParagraph(t, snap, prev) ==
    LET currentParagraphIndex == snap.paragraphIndex
    IN IF currentParagraphIndex < Len(paragraphs(t)) - 1
       THEN Set(Pos(currentParagraphIndex + 1, 0, 0))
       ELSE Noop(prev)

moveToPreviousWord(t, snap, prev) ==
    IF snap.wordIndex > 0
    THEN Set([prev EXCEPT !.wordIndex = prev.wordIndex - 1])
    ELSE IF snap.sentenceIndex > 0
    THEN LET sentences == getCurrentSentences(t, snap) IN
         IF ~Defined(sentences, snap.sentenceIndex - 1)
         THEN Throw(prev)    \* prevSentence.match on undefined
         ELSE LET prevWords == MatchWords(At(sentences, snap.sentenceIndex - 1))
              IN Set([prev EXCEPT !.sentenceIndex = prev.sentenceIndex - 1,
                                  !.wordIndex = Len(prevWords) - 1])
    ELSE IF snap.paragraphIndex > 0
    THEN LET prevSentences ==
                 splitIntoSentences(At(paragraphs(t), snap.paragraphIndex - 1))
         IN IF Len(prevSentences) = 0
            THEN Throw(prev)    \* lastSentence.match on undefined
            ELSE LET lastWords == MatchWords(prevSentences[Len(prevSentences)])
                 IN Set(Pos(prev.paragraphIndex - 1, Len(prevSentences) - 1,
                            Len(lastWords) - 1))
    ELSE Noop(prev)

movePreviousSentence(t, snap, prev) ==
    LET currentSentenceIndex == snap.sentenceIndex
    IN IF currentSentenceIndex > 0
       THEN Set([prev EXCEPT !.sentenceIndex = currentSentenceIndex - 1, !.wordIndex = 0])
       ELSE IF snap.paragraphIndex > 0
       THEN IF ~Defined(paragraphs(t), snap.paragraphIndex - 1)
            THEN Throw(prev)    \* splitIntoSentences(undefined): text.trim on undefined
            ELSE LET prevSentences ==
                         splitIntoSentences(At(paragraphs(t), snap.paragraphIndex - 1))
                 IN IF Len(prevSentences) > 0
                    THEN Set(Pos(prev.paragraphIndex - 1, Len(prevSentences) - 1, 0))
                    ELSE Noop(prev)
       ELSE Noop(prev)

movePreviousParagraph(t, snap, prev) ==
    LET currentParagraphIndex == snap.paragraphIndex
    IN IF currentParagraphIndex > 0
       THEN Set(Pos(currentParagraphIndex - 1, 0, 0))
       ELSE Noop(prev)

----------------------------------------------------------------------------
(* useTTS: the text submitted for synthesis and the playback-completion handler *)

\* getCurrentText: the adapter's own segmentation of the current paragraph
getCurrentText(t, pos) ==
    LET currentParagraph == At(SplitParagraphs(t), pos.paragraphIndex) IN
    IF currentParagraph = <<>> THEN <<>>
    ELSE At(SplitAfterEnd(currentParagraph), pos.sentenceIndex)

\* audioRef.current.onended, a closure of playCurrentSentence: clo.input is the
\* const text = getCurrentText() of that call (it shadows the document text) and
\* clo.pos the currentPosition of the render that ran the effect
onended(clo) ==
    LET paras == SplitParagraphs(clo.input)
        sentences == IF Defined(paras, clo.pos.paragraphIndex)
                     THEN SplitAfterEnd(At(paras, clo.pos.paragraphIndex))
                     ELSE <<>>
    IN IF clo.pos.sentenceIndex < Len(sentences) - 1
       THEN Set([clo.pos EXCEPT !.sentenceIndex = clo.pos.sentenceIndex + 1,
                                !.wordIndex = 0])
       ELSE IF clo.pos.paragraphIndex < Len(paras) - 1
       THEN Set(Pos(clo.pos.paragraphIndex + 1, 0, 0))
       ELSE Noop(clo.pos)

NoClosure == [pos |-> StartPos, input |-> <<>>]

\* no Audio element yet (audioRef.current = null)
NoAudio == [exists |-> FALSE, playing |-> FALSE, src |-> <<>>, onended |-> NoClosure]

\* abortControllerRef.current.abort(): the signal of the request that owns the
\* controller in the ref is aborted (nothing happens when that request has settled)
Abort(reqs) ==
    [i \in 1..Len(reqs) |->
        IF reqs[i].current THEN [reqs[i] EXCEPT !.aborted = TRUE] ELSE reqs[i]]

\* abortControllerRef.current = new AbortController()
NewController(reqs) ==
    [i \in 1..Len(reqs) |-> [reqs[i] EXCEPT !.current = FALSE]]

\* generateSpeech up to the await of fetch: abort the controller in the ref, make a
\* new one and send the request with its signal; pos and input are what the
\* closure of playCurrentSentence holds (currentPosition, text)
StartRequest(reqs, pos, input) ==
    Append(NewController(Abort(reqs)),
           [aborted |-> FALSE, current |-> TRUE, pos |-> pos, input |-> input])

\* fetch with signal: an aborted request rejects (AbortError) whatever the server sent
Succeeds(r, ok) == ok /\ ~r.aborted

\* reducer, case UPDATE_POSITION: the payload is merged over progress.position
UpdatePosition(stored, payload) == payload

----------------------------------------------------------------------------
(* Documents: texts as parseFile returns them (trimmed), with at least one word *)

\* "a b. c d."
DocTwoSentences == <<"a", " ", "b", ".", " ", "c", " ", "d", ".">>

\* "a b.\n \nc.": the middle paragraph is whitespace only
DocBlankMiddle == <<"a", " ", "b", ".", "\n", " ", "\n", "c", ".">>

\* "a. b!\n\nc d": two sentences of one word, then a paragraph without punctuation
DocTwoParagraphs == <<"a", ".", " ", "b", "!", "\n", "\n", "c", " ", "d">>

\* "Dr. a. b?": the abbreviation is merged into the first sentence
DocAbbreviation == <<"D", "r", ".", " ", "a", ".", " ", "b", "?">>

\* "a b c.\nd e. f.\ng"
DocThreeParagraphs == <<"a", " ", "b", " ", "c", ".", "\n", "d", " ", "e", ".", " ",
                        "f", ".", "\n", "g">>

\* "a.\r\n\r\nb c.": CRLF line ends leave a paragraph that is one carriage return
DocCarriageReturns == <<"a", ".", "\r", "\n", "\r", "\n", "b", " ", "c", ".">>

\* "a 9. b. c": a digit before the period keeps the sentence open
DocDigit == <<"a", " ", "9", ".", " ", "b", ".", " ", "c">>

\* "Mr. a b. c d! e\n\nf g. h?"
DocTitle == <<"M", "r", ".", " ", "a", " ", "b", ".", " ", "c", " ", "d", "!", " ",
              "e", "\n", "\n", "f", " ", "g", ".", " ", "h", "?">>

Docs == {DocTwoSentences, DocBlankMiddle, DocTwoParagraphs, DocAbbreviation,
         DocThreeParagraphs, DocCarriageReturns, DocDigit, DocTitle}

\* the test cases of the README (Debugging Guide, Test Cases), as documents
\* Case 1: single sentence paragraph
CaseSingleSentence == <<"T", "h", "i", "s", " ", "i", "s", " ", "a", " ", "c", "o",
                        "m", "p", "l", "e", "t", "e", " ", "p", "a", "r", "a", "g",
                        "r", "a", "p", "h", ".">>

\* Case 2: multiple sentences with abbreviations
CaseAbbreviations == <<"D", "r", ".", " ", "S", "m", "i", "t", "h", " ", "a", "r",
                       "r", "i", "v", "e", "d", " ", "a", "t", " ", "9", " ", "A",
                       ".", "M", ".", " ", "H", "e", " ", "b", "r", "o", "u", "g",
                       "h", "t", " ", "M", "r", ".", " ", "J", "o", "n", "e", "s",
                       " ", "w", "i", "t", "h", " ", "h", "i", "m", ".">>

\* Case 3: paragraph without final punctuation
CaseNoEndPunctuation == <<"T", "h", "i", "s", " ", "p", "a", "r", "a", "g", "r", "a",
                          "p", "h", " ", "h", "a", "s", " ", "n", "o", " ", "e", "n",
                          "d", "i", "n", "g", " ", "p", "u", "n", "c", "t", "u", "a",
                          "t", "i", "o", "n">>

\* Case 4: mixed sentence endings
CaseMixedEndings == <<"F", "i", "r", "s", "t", " ", "s", "e", "n", "t", "e", "n",
                      "c", "e", "!", " ", "S", "e", "c", "o", "n", "d", " ", "s",
                      "e", "n", "t", "e", "n", "c", "e", "?", " ", "L", "a", "s",
                      "t", " ", "s", "e", "n", "t", "e", "n", "c", "e", ".">>

\* Case 5: complex abbreviations
CaseComplexAbbreviations == <<"T", "h", "e", " ", "m", "e", "e", "t", "i", "n", "g",
                              " ", "i", "s", " ", "a", "t", " ", "1", "0", " ", "A",
                              ".", "M", ".", " ", "t", "o", "m", "o", "r", "r", "o",
                              "w", ".", " ", "D", "r", ".", " ", "S", "m", "i", "t",
                              "h", " ", "a", "n", "d", " ", "M", "r", "s", ".", " ",
                              "J", "o", "n", "e", "s", " ", "w", "i", "l", "l", " ",
                              "a", "t", "t", "e", "n", "d", ".">>

\* Case 2 without its last two words
CaseTwoAbbreviations == <<"D", "r", ".", " ", "S", "m", "i", "t", "h", " ", "a", "r",
                          "r", "i", "v", "e", "d", " ", "a", "t", " ", "9", " ", "A",
                          ".", "M", ".", " ", "H", "e", " ", "b", "r", "o", "u", "g",
                          "h", "t", " ", "M", "r", ".", " ", "J", "o", "n", "e", "s",
                          ".">>

\* "J.K.Xu ran. b c.": initials written without spaces
DocInitials == <<"J", ".", "K", ".", "X", "u", " ", "r", "a", "n", ".", " ", "b", " ",
                 "c", ".">>

\* an empty file: parseText gives text ""
DocEmpty == <<>>

Cases == {CaseSingleSentence, CaseAbbreviations, CaseNoEndPunctuation, CaseMixedEndings,
          CaseComplexAbbreviations, CaseTwoAbbreviations}

\* "a.\nb c.\nd.\ne. f.": four paragraphs, two pages
DocFourParagraphs == <<"a", ".", "\n", "b", " ", "c", ".", "\n", "d", ".", "\n",
                       "e", ".", " ", "f", ".">>

\* "a.\nb.\nc.\nd.\ne.\nf.\ng h.": seven paragraphs, three pages
DocSevenParagraphs == <<"a", ".", "\n", "b", ".", "\n", "c", ".", "\n", "d", ".",
                        "\n", "e", ".", "\n", "f", ".", "\n", "g", " ", "h", ".">>

\* documents of more than one page
PageDocs == {DocFourParagraphs, DocSevenParagraphs}

\* the characters of the generated documents: a letter, a capital, a digit, a full
\* stop, a space and a line end
Alphabet == {"a", "A", "9", ".", SP, NL}

\* longest generated document
MaxLen == 4

\* every document of at most MaxLen characters that a parser can return (trimmed)
Texts == {t \in UNION {[1..n -> Alphabet] : n \in 0..MaxLen} : Trim(t) = t}

\* defaultPreferences.autoScrollSpeed
defaultAutoScrollSpeed == 200

\* positions of the speed slider (min 100, max 500, step 10) that the model uses;
\* 60000 is a multiple of each
Speeds == {120, 200, 240}

\* a delay computed in seconds where setInterval takes milliseconds
msPerWordInSeconds(wordsPerMinute) == 60 \div wordsPerMinute

\* const msPerWord = 60000 / wordsPerMinute
msPerWord(wordsPerMinute) == 60000 \div wordsPerMinute

\* most setPosition calls queued before a render commits them
MaxPending == 2

\* most synthesis requests in flight (aborted ones included)
MaxInFlight == 2

\* no keydown event is being dispatched
NoKey == [key |-> "", modifier |-> ""]

----------------------------------------------------------------------------
(* State after BookReader has mounted with a loaded document *)

Init ==
    /\ text \in Docs
    /\ keydown = NoKey
    /\ currentPage = 0
    /\ intervals = 0
    /\ position = StartPos
    /\ rendered = StartPos
    /\ pending = 0
    /\ storePos = StartPos
    /\ isPlaying = FALSE
    /\ isSpeaking = FALSE
    /\ timer = FALSE
    /\ timerDelay = 0
    /\ autoScrollSpeed = defaultAutoScrollSpeed
    /\ isLoading = FALSE
    /\ requests = <<>>
    /\ audio = NoAudio

----------------------------------------------------------------------------
(* Position requests: a key handler or the interval timer calls a move operation *)
(* of the last committed render; setPosition queues the updater                  *)

Call(r) ==
    /\ pending < MaxPending
    /\ position' = r.pos
    /\ pending' = IF r.outcome = "set" THEN pending + 1 ELSE pending
    /\ UNCHANGED <<text, rendered, storePos, isPlaying, isSpeaking, timer,
                   timerDelay, autoScrollSpeed, isLoading, requests, audio,
                   currentPage, intervals>>

\* a call made by a handler outside the dispatch of a keydown event to both
\* key handlers
Request(r) ==
    /\ Call(r)
    /\ UNCHANGED keydown

\* Alt+ArrowRight
MoveToNextWord == Request(moveToNextWord(text, rendered, position))

\* Alt+ArrowLeft
MovePreviousWord == Request(moveToPreviousWord(text, rendered, position))

\* Shift+ArrowRight
MoveToNextSentence == Request(moveToNextSentence(text, rendered, position))

\* Shift+ArrowLeft
MovePreviousSentence == Request(movePreviousSentence(text, rendered, position))

\* Ctrl+ArrowRight
MoveToNextParagraph == Request(moveToNextParagraph(text, rendered, position))

\* Ctrl+ArrowLeft
MovePreviousParagraph == Request(movePreviousParagraph(text, rendered, position))

\* the setInterval callback of the auto-scroll effect
Tick ==
    /\ timer
    /\ Request(moveToNextWord(text, rendered, position))

----------------------------------------------------------------------------
(* Effects of a render commit *)

\* TextDisplay
PARAGRAPHS_PER_PAGE == 3

\* an auto-scroll effect whose cleanup clears nothing
autoScrollEffectNoCleanup(n, wasPlaying, playing) == n + (IF playing THEN 1 ELSE 0)

\* the auto-scroll effect run again: the cleanup of its last run (there is one when
\* that run saw isPlaying) clears its interval, then the effect sets an interval
\* when it sees isPlaying; n counts the intervals not yet cleared
autoScrollEffect(n, wasPlaying, playing) ==
    (IF wasPlaying THEN n - 1 ELSE n) + (IF playing THEN 1 ELSE 0)

\* a page effect that never runs
pageEffectNever(page, old, new) == page

\* the page effect of TextDisplay, run when currentPosition.paragraphIndex has
\* changed: setCurrentPage(floor(paragraphIndex / PARAGRAPHS_PER_PAGE))
pageEffect(page, old, new) ==
    IF new.paragraphIndex # old.paragraphIndex
    THEN new.paragraphIndex \div PARAGRAPHS_PER_PAGE
    ELSE page

----------------------------------------------------------------------------
(* Variants of the render commit with a seeded fault in the auto-scroll effect *)

\* the effect without its cleanup: an armed interval is never cleared
CommitKeepingTimer(playing, speaking, aud, speed) ==
    LET positionChanged == pending > 0
        \* deps of the playback effect: isPlaying (= isSpeaking), currentPosition
        playbackRuns == positionChanged \/ speaking # isSpeaking
        input == getCurrentText(text, position)
        starts == playbackRuns /\ speaking /\ input # <<>>
    IN /\ starts => Len(requests) < MaxInFlight
       /\ rendered' = position
       /\ pending' = 0
       /\ currentPage' = pageEffect(currentPage, rendered, position)
       \* notify effect: onPositionChange(position) -> dispatch UPDATE_POSITION
       /\ storePos' = IF positionChanged THEN UpdatePosition(storePos, position)
                      ELSE storePos
       /\ isPlaying' = playing
       /\ isSpeaking' = speaking
       /\ timer' = (timer \/ playing)
       /\ intervals' = intervals + (IF playing THEN 1 ELSE 0)
       /\ timerDelay' = IF timer THEN timerDelay
                        ELSE IF playing THEN msPerWord(speed) ELSE 0
       /\ autoScrollSpeed' = speed
       \* playback effect
       /\ requests' = IF starts THEN StartRequest(requests, position, input)
                      ELSE requests
       /\ isLoading' = IF starts THEN TRUE ELSE isLoading
       /\ audio' = IF playbackRuns /\ ~speaking THEN [aud EXCEPT !.playing = FALSE]
                   ELSE aud
       /\ UNCHANGED <<text, position>>

\* the effect clears the interval after a move and does not set a new one
CommitDroppingTimer(playing, speaking, aud, speed) ==
    LET positionChanged == pending > 0
        \* deps of the playback effect: isPlaying (= isSpeaking), currentPosition
        playbackRuns == positionChanged \/ speaking # isSpeaking
        input == getCurrentText(text, position)
        starts == playbackRuns /\ speaking /\ input # <<>>
    IN /\ starts => Len(requests) < MaxInFlight
       /\ rendered' = position
       /\ pending' = 0
       /\ currentPage' = pageEffect(currentPage, rendered, position)
       \* notify effect: onPositionChange(position) -> dispatch UPDATE_POSITION
       /\ storePos' = IF positionChanged THEN UpdatePosition(storePos, position)
                      ELSE storePos
       /\ isPlaying' = playing
       /\ isSpeaking' = speaking
       /\ timer' = (playing /\ ~positionChanged)
       /\ intervals' = IF playing /\ ~positionChanged THEN 1 ELSE 0
       /\ timerDelay' = IF playing /\ ~positionChanged THEN msPerWord(speed) ELSE 0
       /\ autoScrollSpeed' = speed
       \* playback effect
       /\ requests' = IF starts THEN StartRequest(requests, position, input)
                      ELSE requests
       /\ isLoading' = IF starts THEN TRUE ELSE isLoading
       /\ audio' = IF playbackRuns /\ ~speaking THEN [aud EXCEPT !.playing = FALSE]
                   ELSE aud
       /\ UNCHANGED <<text, position>>

----------------------------------------------------------------------------
(* A render commit and its effects.  playing and speaking are the store flags the *)
(* render sees, aud the Audio element as the event handler left it, speed the     *)
(* autoScrollSpeed of the store.                                                 *)

Commit(playing, speaking, aud, speed) ==
    LET positionChanged == pending > 0
        \* deps of the playback effect: isPlaying (= isSpeaking), currentPosition
        playbackRuns == positionChanged \/ speaking # isSpeaking
        input == getCurrentText(text, position)
        starts == playbackRuns /\ speaking /\ input # <<>>
    IN /\ starts => Len(requests) < MaxInFlight
       /\ rendered' = position
       /\ pending' = 0
       /\ currentPage' = pageEffect(currentPage, rendered, position)
       \* notify effect: onPositionChange(position) -> dispatch UPDATE_POSITION
       /\ storePos' = IF positionChanged THEN UpdatePosition(storePos, position)
                      ELSE storePos
       /\ isPlaying' = playing
       /\ isSpeaking' = speaking
       \* auto-scroll effect: cleanup clears the interval, the effect sets a new one
       /\ timer' = playing
       /\ intervals' = autoScrollEffect(intervals, isPlaying, playing)
       /\ timerDelay' = IF playing THEN msPerWord(speed) ELSE 0
       /\ autoScrollSpeed' = speed
       \* playback effect
       /\ requests' = IF starts THEN StartRequest(requests, position, input)
                      ELSE requests
       /\ isLoading' = IF starts THEN TRUE ELSE isLoading
       /\ audio' = IF playbackRuns /\ ~speaking THEN [aud EXCEPT !.playing = FALSE]
                   ELSE aud
       /\ UNCHANGED <<text, position>>

\* React commits the queued position updates
Render ==
    /\ pending > 0
    /\ Commit(isPlaying, isSpeaking, audio, autoScrollSpeed)
    /\ UNCHANGED keydown

\* Play/Pause button or Space: dispatch TOGGLE_PLAY
TogglePlay ==
    /\ Commit(~isPlaying, isSpeaking, audio, autoScrollSpeed)
    /\ UNCHANGED keydown

\* stop(): pause and rewind
stopSpeech(aud) == [aud EXCEPT !.playing = FALSE]

\* Speak button (disabled while isSpeechLoading): stopSpeech() when speaking, then
\* dispatch TOGGLE_SPEAK
ToggleSpeak ==
    /\ ~isLoading
    /\ Commit(isPlaying, ~isSpeaking,
              IF isSpeaking THEN stopSpeech(audio) ELSE audio, autoScrollSpeed)
    /\ UNCHANGED keydown

\* the speed slider: dispatch UPDATE_PREFERENCES with the new autoScrollSpeed
SetSpeed(wpm) ==
    /\ wpm # autoScrollSpeed
    /\ Commit(isPlaying, isSpeaking, audio, wpm)
    /\ UNCHANGED keydown

----------------------------------------------------------------------------
(* A keydown event with the focus inside the BookReader container: React calls   *)
(* the container's onKeyDown (BookReader.handleKeyDown), then the event reaches   *)
(* window, where TextDisplay has registered its own handleKeyDown.  A render may  *)
(* or may not commit between the two handlers.                                    *)

\* the key presses of the shortcuts: event.key with the one modifier held; the
\* space bar reports event.key " "
Keys ==
    [key : {"ArrowRight", "ArrowLeft"}, modifier : {"ctrl", "shift", "alt"}]
        \cup {[key |-> " ", modifier |-> ""]}

\* the move operation both handlers select for an arrow key: ctrlKey, then
\* shiftKey, then altKey
KeyMove(e) ==
    IF e.key = "ArrowRight"
    THEN IF e.modifier = "ctrl" THEN moveToNextParagraph(text, rendered, position)
         ELSE IF e.modifier = "shift" THEN moveToNextSentence(text, rendered, position)
         ELSE moveToNextWord(text, rendered, position)
    ELSE IF e.modifier = "ctrl" THEN movePreviousParagraph(text, rendered, position)
         ELSE IF e.modifier = "shift" THEN movePreviousSentence(text, rendered, position)
         ELSE moveToPreviousWord(text, rendered, position)

\* the body of either handler for the keys above
handleKeyDown(e) ==
    IF e.key \in {"ArrowRight", "ArrowLeft"} /\ e.modifier \in {"ctrl", "shift", "alt"}
    THEN Call(KeyMove(e))
    ELSE IF e.key = "Space"
    THEN Commit(~isPlaying, isSpeaking, audio, autoScrollSpeed)    \* TOGGLE_PLAY
    ELSE UNCHANGED <<text, position, rendered, pending, storePos, isPlaying,
                     isSpeaking, timer, timerDelay, autoScrollSpeed, isLoading,
                     requests, audio, currentPage, intervals>>

\* the key goes down: the container's onKeyDown runs
KeyDown(e) ==
    /\ keydown = NoKey
    /\ handleKeyDown(e)
    /\ keydown' = e

\* the same event reaches the window listener of TextDisplay
WindowKeyDown ==
    /\ keydown # NoKey
    /\ handleKeyDown(keydown)
    /\ keydown' = NoKey

----------------------------------------------------------------------------
(* Speech backend and audio element events *)

\* the requests still in flight once request i has settled
Remove(reqs, i) == SubSeq(reqs, 1, i - 1) \o SubSeq(reqs, i + 1, Len(reqs))

\* playCurrentSentence after await generateSpeech(text) returned a url
Play(r) == [exists |-> TRUE, playing |-> TRUE, src |-> r.input,
            onended |-> [pos |-> r.pos, input |-> r.input]]

\* The fetch of request r settles: ok is the server answering with audio.  On success
\* setAudioUrl, setIsLoading(false), and playCurrentSentence goes on; the commit of
\* the new audioUrl runs the cleanup that aborts the controller in the ref.  On a
\* failure or an abort the catch block runs: setIsLoading(false), return null.
Resolve(i, ok) ==
    /\ i \in 1..Len(requests)
    /\ LET r == requests[i]
           rest == Remove(requests, i)
       IN /\ requests' = IF Succeeds(r, ok) THEN Abort(rest) ELSE rest
          /\ audio' = IF Succeeds(r, ok) THEN Play(r) ELSE audio
    /\ isLoading' = FALSE
    /\ UNCHANGED <<text, position, rendered, pending, storePos, isPlaying,
                   isSpeaking, timer, timerDelay, autoScrollSpeed, keydown,
                   currentPage, intervals>>

\* the audio element fires ended; its onended handler runs
AudioEnded ==
    /\ audio.playing
    /\ audio' = [audio EXCEPT !.playing = FALSE]
    /\ LET r == onended(audio.onended)
       IN storePos' = IF r.outcome = "set" THEN UpdatePosition(storePos, r.pos)
                      ELSE storePos
    /\ UNCHANGED <<text, position, rendered, pending, isPlaying, isSpeaking,
                   timer, timerDelay, autoScrollSpeed, isLoading, requests, keydown,
                   currentPage, intervals>>

----------------------------------------------------------------------------
(* TextDisplay: a click on a paragraph or on a sentence of it *)

\* the sentences TextDisplay renders for paragraph p: paragraph.split(/(?<=[.!?])\s+/)
DisplayedSentences(t, p) == SplitAfterEnd(At(SplitParagraphs(t), p))

\* onClick of the <p> (s = 0) or of a sentence <span>: dispatch UPDATE_POSITION with
\* the indices of the element in TextDisplay's own segmentation.  The paragraphs
\* on the page are paragraphs.slice(startIdx, startIdx + PARAGRAPHS_PER_PAGE).
Click(p, s) ==
    /\ p \in 0..(Len(SplitParagraphs(text)) - 1)
    /\ p \in (currentPage * PARAGRAPHS_PER_PAGE)
                ..(currentPage * PARAGRAPHS_PER_PAGE + PARAGRAPHS_PER_PAGE - 1)
    /\ s \in 0..(Len(DisplayedSentences(text, p)) - 1)
    /\ storePos' = UpdatePosition(storePos, Pos(p, s, 0))
    /\ UNCHANGED currentPage
    /\ UNCHANGED <<text, position, rendered, pending, isPlaying, isSpeaking, timer,
                   timerDelay, autoScrollSpeed, isLoading, requests, audio, keydown,
                   intervals>>

----------------------------------------------------------------------------
(* TextDisplay: the page is turned by a click on the left or right navigation    *)
(* area or by ArrowLeft/ArrowRight without a modifier (window listener)           *)

\* Math.ceil(paragraphs.length / PARAGRAPHS_PER_PAGE)
totalPages(t) ==
    (Len(SplitParagraphs(t)) + PARAGRAPHS_PER_PAGE - 1) \div PARAGRAPHS_PER_PAGE

\* handlePageChange(newPage): setCurrentPage and dispatch UPDATE_POSITION with the
\* first paragraph of the page; nothing when newPage is not a page
handlePageChange(newPage) ==
    /\ newPage >= 0
    /\ newPage < totalPages(text)
    /\ currentPage' = newPage
    /\ storePos' = UpdatePosition(storePos, Pos(newPage * PARAGRAPHS_PER_PAGE, 0, 0))
    /\ UNCHANGED <<text, position, rendered, pending, isPlaying, isSpeaking, timer,
                   timerDelay, autoScrollSpeed, isLoading, requests, audio, keydown,
                   intervals>>

\* handlePageChange(currentPage - 1)
PreviousPage == handlePageChange(currentPage - 1)

\* handlePageChange(currentPage + 1)
NextPage == handlePageChange(currentPage + 1)

----------------------------------------------------------------------------
(* A new document: dispatch SET_CONTENT, and the render with the new text *)

\* reducer, case SET_CONTENT: content is replaced, progress.position is kept.  In
\* the render that follows useTextNavigation keeps its position state (no effect
\* depends on text); getCurrentText and moveToNextWord are new callbacks, so the
\* playback effect and the auto-scroll effect run again.
SetContent(t) ==
    LET positionChanged == pending > 0
        input == getCurrentText(t, position)
        starts == isSpeaking /\ input # <<>>
    IN /\ t # text
       /\ starts => Len(requests) < MaxInFlight
       /\ text' = t
       /\ rendered' = position
       /\ pending' = 0
       /\ storePos' = IF positionChanged THEN UpdatePosition(storePos, position)
                      ELSE storePos
       /\ requests' = IF starts THEN StartRequest(requests, position, input)
                      ELSE requests
       /\ isLoading' = IF starts THEN TRUE ELSE isLoading
       /\ audio' = IF ~isSpeaking THEN [audio EXCEPT !.playing = FALSE] ELSE audio
       \* auto-scroll effect: moveToNextWord is a new callback, the interval is set anew
       /\ timerDelay' = IF isPlaying THEN msPerWord(autoScrollSpeed) ELSE 0
       /\ intervals' = autoScrollEffect(intervals, isPlaying, isPlaying)
       \* page effect: currentPosition.paragraphIndex is what it was
       /\ UNCHANGED <<position, isPlaying, isSpeaking, timer, autoScrollSpeed,
                      keydown, currentPage>>

----------------------------------------------------------------------------
(* The second copy of useTextNavigation in the repository (unnamed/part_000).  It *)
(* differs from hooks/useTextNavigation.ts in moveToNextSentence, which computes   *)
(* nextPosition from the position of its closure and always calls setPosition.    *)

moveToNextSentenceCopy(t, snap, prev) ==
    LET currentSentences == splitIntoSentences(getCurrentParagraph(t, snap))
        currentSentenceIndex == snap.sentenceIndex
    IN IF currentSentenceIndex + 1 < Len(currentSentences)
       THEN Set(Pos(snap.paragraphIndex, currentSentenceIndex + 1, 0))
       ELSE IF snap.paragraphIndex + 1 < Len(paragraphs(t))
       THEN LET nextSentences ==
                    splitIntoSentences(At(paragraphs(t), snap.paragraphIndex + 1))
            IN IF Len(nextSentences) > 0
               THEN Set(Pos(snap.paragraphIndex + 1, 0, 0))
               ELSE Set(snap)    \* nextPosition = { ...position }
       ELSE Set(snap)            \* nextPosition = { ...position }

\* Shift+ArrowRight in a build with that copy
MoveToNextSentenceCopy == Request(moveToNextSentenceCopy(text, rendered, position))

----------------------------------------------------------------------------

\* the whole reader
Next ==
    \/ MoveToNextWord
    \/ MovePreviousWord
    \/ MoveToNextSentence
    \/ MovePreviousSentence
    \/ MoveToNextParagraph
    \/ MovePreviousParagraph
    \/ Tick
    \/ Render
    \/ TogglePlay
    \/ ToggleSpeak
    \/ \E i \in 1..Len(requests), ok \in BOOLEAN : Resolve(i, ok)
    \/ AudioEnded
    \/ \E p \in 0..Len(text), s \in 0..Len(text) : Click(p, s)
    \/ \E t \in Docs : SetContent(t)
    \/ \E wpm \in Speeds : SetSpeed(wpm)
    \/ PreviousPage
    \/ NextPage

Spec == Init /\ [][Next]_vars

\* the navigation layer alone: key handlers, the timer and renders
NavNext ==
    \/ MoveToNextWord
    \/ MovePreviousWord
    \/ MoveToNextSentence
    \/ MovePreviousSentence
    \/ MoveToNextParagraph
    \/ MovePreviousParagraph
    \/ Tick
    \/ Render
    \/ TogglePlay

SpecNav == Init /\ [][NavNext]_vars


\* the speech adapter with the sentence moves as the source of position changes
SpeechNext ==
    \/ MoveToNextSentence
    \/ MovePreviousSentence
    \/ Render
    \/ TogglePlay
    \/ ToggleSpeak
    \/ \E i \in 1..Len(requests), ok \in BOOLEAN : Resolve(i, ok)
    \/ AudioEnded

SpecSpeech == Init /\ [][SpeechNext]_vars

\* moveToNextWord called again and again (Alt+ArrowRight or the running timer), each
\* call made once the render of the previous one has committed
WalkKey == pending = 0 /\ MoveToNextWord

WalkTick == pending = 0 /\ Tick

WalkNext ==
    \/ WalkKey
    \/ WalkTick
    \/ Render
    \/ TogglePlay

SpecWalk == Init /\ [][WalkNext]_vars

\* navigation by keys and by clicks on the displayed text
ClickNext ==
    \/ MoveToNextWord
    \/ MoveToNextSentence
    \/ MoveToNextParagraph
    \/ Render
    \/ \E p \in 0..Len(text), s \in 0..Len(text) : Click(p, s)

SpecClick == Init /\ [][ClickNext]_vars

\* navigation by keys, with the document replaced now and then
ContentNext ==
    \/ MoveToNextWord
    \/ MoveToNextParagraph
    \/ MovePreviousParagraph
    \/ Render
    \/ \E t \in Docs : SetContent(t)

SpecContent == Init /\ [][ContentNext]_vars

\* the navigation layer of a build with the second copy of the hook
NotifyNext ==
    \/ MoveToNextWord
    \/ MoveToNextSentenceCopy
    \/ MovePreviousSentence
    \/ MoveToNextParagraph
    \/ Render

SpecNotify == Init /\ [][NotifyNext]_vars

\* autoscroll alone: the timer, the renders of its moves, the Play button and the
\* speed slider
ScrollNext ==
    \/ WalkTick
    \/ Render
    \/ TogglePlay
    \/ \E wpm \in Speeds : SetSpeed(wpm)

SpecScroll == Init /\ [][ScrollNext]_vars

\* the speech adapter with the word moves as the source of position changes
WordSpeechNext ==
    \/ MoveToNextWord
    \/ Render
    \/ ToggleSpeak
    \/ \E i \in 1..Len(requests), ok \in BOOLEAN : Resolve(i, ok)
    \/ AudioEnded

SpecWordSpeech == Init /\ [][WordSpeechNext]_vars

\* segmentation of whole files: the README's test cases, the documents of Docs, a
\* document with initials and an empty file, read with the sentence, word and paragraph moves
InitSegment ==
    /\ text \in Cases \cup Docs \cup {DocEmpty, DocInitials}
    /\ keydown = NoKey
    /\ currentPage = 0
    /\ intervals = 0
    /\ position = StartPos
    /\ rendered = StartPos
    /\ pending = 0
    /\ storePos = StartPos
    /\ isPlaying = FALSE
    /\ isSpeaking = FALSE
    /\ timer = FALSE
    /\ timerDelay = 0
    /\ autoScrollSpeed = defaultAutoScrollSpeed
    /\ isLoading = FALSE
    /\ requests = <<>>
    /\ audio = NoAudio

SegmentNext ==
    \/ MoveToNextWord
    \/ MoveToNextSentence
    \/ MovePreviousSentence
    \/ MoveToNextParagraph
    \/ Render

SpecSegment == InitSegment /\ [][SegmentNext]_vars

\* a document of several pages read with the paragraph and sentence moves, clicks
\* on the text and page turns
InitPages ==
    /\ text \in PageDocs
    /\ keydown = NoKey
    /\ currentPage = 0
    /\ intervals = 0
    /\ position = StartPos
    /\ rendered = StartPos
    /\ pending = 0
    /\ storePos = StartPos
    /\ isPlaying = FALSE
    /\ isSpeaking = FALSE
    /\ timer = FALSE
    /\ timerDelay = 0
    /\ autoScrollSpeed = defaultAutoScrollSpeed
    /\ isLoading = FALSE
    /\ requests = <<>>
    /\ audio = NoAudio

PagesNext ==
    \/ MoveToNextSentence
    \/ MoveToNextParagraph
    \/ MovePreviousParagraph
    \/ Render
    \/ \E p \in 0..Len(text), s \in 0..Len(text) : Click(p, s)
    \/ PreviousPage
    \/ NextPage

SpecPages == InitPages /\ [][PagesNext]_vars

\* every short document, the documents of Docs and the README's test cases, read
\* with the word and sentence moves
InitTexts ==
    /\ text \in Texts \cup Docs \cup Cases \cup {DocInitials}
    /\ keydown = NoKey
    /\ currentPage = 0
    /\ intervals = 0
    /\ position = StartPos
    /\ rendered = StartPos
    /\ pending = 0
    /\ storePos = StartPos
    /\ isPlaying = FALSE
    /\ isSpeaking = FALSE
    /\ timer = FALSE
    /\ timerDelay = 0
    /\ autoScrollSpeed = defaultAutoScrollSpeed
    /\ isLoading = FALSE
    /\ requests = <<>>
    /\ audio = NoAudio

TextsNext ==
    \/ WalkKey
    \/ pending = 0 /\ MoveToNextSentence
    \/ Render

SpecTexts == InitTexts /\ [][TextsNext]_vars

\* the keyboard shortcuts pressed with the focus inside the container
KeysNext ==
    \/ \E e \in Keys : KeyDown(e)
    \/ WindowKeyDown
    \/ Render

SpecKeys == Init /\ [][KeysNext]_vars

----------------------------------------------------------------------------
(* Vocabulary of the claims *)

NumParagraphs(t) == Len(paragraphs(t))

NumSentences(t, p) == Len(splitIntoSentences(At(paragraphs(t), p)))

NumWords(t, p, s) == Len(MatchWords(At(splitIntoSentences(At(paragraphs(t), p)), s)))

\* the data-model invariant: every index of pos resolves against the segmentation of t
Valid(t, pos) ==
    /\ pos.paragraphIndex >= 0
    /\ pos.paragraphIndex < NumParagraphs(t)
    /\ pos.sentenceIndex >= 0
    /\ pos.sentenceIndex < NumSentences(t, pos.paragraphIndex)
    /\ pos.wordIndex >= 0
    /\ pos.wordIndex < NumWords(t, pos.paragraphIndex, pos.sentenceIndex)

----------------------------------------------------------------------------
(* C1 *)

\* C1: in every state reachable from (0,0,0) by the six move operations the Position
\* the hook holds after a render is resolvable against the segmentation: paragraph
\* index within the paragraphs, sentence index within that paragraph's sentences,
\* word index within that sentence's words.
C1_PositionResolvable == Valid(text, rendered)

----------------------------------------------------------------------------
(* C2 *)

\* C2: autoscroll and speech mode are mutually exclusive: after any sequence of
\* TOGGLE_PLAY and TOGGLE_SPEAK, isPlaying and isSpeaking are never both true.
C2_MutuallyExclusive == ~(isPlaying /\ isSpeaking)

----------------------------------------------------------------------------
(* C3 *)

\* C3: position requests are serialized: every request (key handler or timer), also
\* one issued before the render of an earlier request has committed, leaves the
\* Position that the operation gives when it decides on the Position the previous
\* request left.
C3_RequestsSerialized ==
    [][/\ MoveToNextWord =>
            position' = moveToNextWord(text, position, position).pos
       /\ MovePreviousWord =>
            position' = moveToPreviousWord(text, position, position).pos
       /\ MoveToNextSentence =>
            position' = moveToNextSentence(text, position, position).pos
       /\ MovePreviousSentence =>
            position' = movePreviousSentence(text, position, position).pos
       /\ MoveToNextParagraph =>
            position' = moveToNextParagraph(text, position, position).pos
       /\ MovePreviousParagraph =>
            position' = movePreviousParagraph(text, position, position).pos
      ]_vars

----------------------------------------------------------------------------
(* C4 *)

\* C4: once speech mode is disabled, a synthesis request that settles (with audio or
\* with a failure), and the end of any audio it started, leave the Position as it
\* is: the hook's position, the rendered position and the stored position.
C4_ResolutionKeepsPosition ==
    [][(/\ ~isSpeaking
        /\ \/ \E i \in 1..Len(requests), ok \in BOOLEAN : Resolve(i, ok)
           \/ AudioEnded)
       => (position' = position /\ rendered' = rendered /\ storePos' = storePos)
      ]_vars

\* speech is disabled and audio of a request that resolved afterwards is playing
C4_Witness == ~isSpeaking /\ audio.playing

----------------------------------------------------------------------------
(* C5 *)

\* C5: while speech mode is disabled no synthesis request is outstanding and no
\* audio is playing.
C5_DisabledMeansSilent ==
    ~isSpeaking =>
        /\ \A i \in 1..Len(requests) : requests[i].aborted
        /\ ~audio.playing

----------------------------------------------------------------------------
(* C6 *)

\* the requests in flight whose signal has not been aborted
Outstanding == {i \in 1..Len(requests) : ~requests[i].aborted}

\* C6: at most one synthesis request is outstanding (in flight and not aborted), and
\* an aborted request that settles, whatever the server answered, leaves the audio
\* element (source and playback) and the Position untouched.
C6_OneOutstanding ==
    /\ [](Cardinality(Outstanding) <= 1)
    /\ [][\A i \in 1..Len(requests), ok \in BOOLEAN :
            (requests[i].aborted /\ Resolve(i, ok))
            => (audio' = audio /\ position' = position /\ storePos' = storePos)
         ]_vars

\* a request was started while another was in flight: the older one is aborted
C6_Witness ==
    /\ Len(requests) = 2
    /\ requests[1].aborted
    /\ ~requests[2].aborted

----------------------------------------------------------------------------
(* C7 *)

\* C7: when the audio of a sentence ends while speech mode is enabled, the Position
\* becomes what moveToNextSentence gives from it.
C7_EndAdvances ==
    [][(AudioEnded /\ isSpeaking)
       => position' = moveToNextSentence(text, position, position).pos
      ]_vars

----------------------------------------------------------------------------
(* C8 *)

\* the four cases of the next-word rule, from the counts of the segmentation
ExpectedNextWord(t, pos) ==
    LET p == pos.paragraphIndex
        s == pos.sentenceIndex
        w == pos.wordIndex
    IN IF w + 1 < NumWords(t, p, s) THEN Pos(p, s, w + 1)
       ELSE IF s + 1 < NumSentences(t, p) THEN Pos(p, s + 1, 0)
       ELSE IF p + 1 < NumParagraphs(t) THEN Pos(p + 1, 0, 0)
       ELSE pos

\* C8: moveToNextWord called on a rendered valid Position (p,s,w) gives (p,s,w+1) when
\* w is not the last word of the sentence, else (p,s+1,0) when s is not the last
\* sentence of the paragraph, else (p+1,0,0) when p is not the last paragraph, else
\* the Position unchanged.
C8_NextWordCases ==
    [][(pending = 0 /\ Valid(text, position) /\ MoveToNextWord)
       => position' = ExpectedNextWord(text, position)
      ]_vars

\* moveToNextWord has just moved from the last word of a sentence of several words
\* to the first word of the next sentence
C8_Witness ==
    /\ pending = 1
    /\ Valid(text, rendered)
    /\ rendered.wordIndex > 0
    /\ rendered.wordIndex =
           NumWords(text, rendered.paragraphIndex, rendered.sentenceIndex) - 1
    /\ position = Pos(rendered.paragraphIndex, rendered.sentenceIndex + 1, 0)

----------------------------------------------------------------------------
(* C9 *)

\* document order: lexicographic on paragraph, sentence, word
Leq(a, b) ==
    \/ a.paragraphIndex < b.paragraphIndex
    \/ /\ a.paragraphIndex = b.paragraphIndex
       /\ \/ a.sentenceIndex < b.sentenceIndex
          \/ /\ a.sentenceIndex = b.sentenceIndex
             /\ a.wordIndex <= b.wordIndex

\* the last word of the last sentence of the last paragraph
LastWordPos(t) ==
    LET p == NumParagraphs(t) - 1
        s == NumSentences(t, p) - 1
    IN Pos(p, s, NumWords(t, p, s) - 1)

\* C9: with moveToNextWord called again and again from (0,0,0), each call on the
\* render of the previous one, the Position never decreases in document order and
\* never passes the last word of the last sentence of the last paragraph; every call
\* made before that word moves the Position strictly forward, so the walk arrives
\* there after finitely many calls; a call made there leaves it unchanged.
C9_WalkReachesEnd ==
    /\ [][Leq(position, position')]_vars
    /\ [](Leq(position, LastWordPos(text)))
    /\ []((pending = 0 /\ position # LastWordPos(text))
          => ~Leq(moveToNextWord(text, position, position).pos, position))
    /\ []((pending = 0 /\ position = LastWordPos(text))
          => moveToNextWord(text, position, position).pos = position)

\* the walk has arrived at the end of a document of several paragraphs
C9_Witness ==
    /\ pending = 0
    /\ position = LastWordPos(text)
    /\ position.paragraphIndex > 0
    /\ position.wordIndex > 0

----------------------------------------------------------------------------
(* C10 *)

\* the valid positions of t
ValidPositions(t) ==
    UNION {UNION {{Pos(p, s, w) : w \in 0..(NumWords(t, p, s) - 1)} :
                  s \in 0..(NumSentences(t, p) - 1)} :
           p \in 0..(NumParagraphs(t) - 1)}

\* C10: for every valid Position q that is not the document end, movePreviousWord
\* called on the rendered result of moveToNextWord from q gives q again; at the
\* document end moveToNextWord leaves the Position unchanged, and at (0,0,0)
\* movePreviousWord leaves it unchanged.
C10_NextThenPrevious ==
    [][/\ \A q \in ValidPositions(text) \ {LastWordPos(text)} :
            (/\ pending = 0
             /\ position = moveToNextWord(text, q, q).pos
             /\ MovePreviousWord)
            => position' = q
       /\ (pending = 0 /\ position = LastWordPos(text) /\ MoveToNextWord)
            => position' = position
       /\ (pending = 0 /\ position = StartPos /\ MovePreviousWord)
            => position' = position
      ]_vars

\* movePreviousWord has just returned from the first word of a paragraph to the
\* last word of the paragraph before it, whose next word is where it came from
C10_Witness ==
    /\ pending = 1
    /\ Valid(text, position)
    /\ rendered = moveToNextWord(text, position, position).pos
    /\ rendered.paragraphIndex = position.paragraphIndex + 1

----------------------------------------------------------------------------
(* C11 *)

\* what each of the six move operations does when called on the rendered Position
MoveResults(t, pos) ==
    {moveToNextWord(t, pos, pos), moveToPreviousWord(t, pos, pos),
     moveToNextSentence(t, pos, pos), movePreviousSentence(t, pos, pos),
     moveToNextParagraph(t, pos, pos), movePreviousParagraph(t, pos, pos)}

\* C11: called on a rendered valid Position, none of the six move operations
\* raises an error.
C11_MovesNeverThrow ==
    (pending = 0 /\ Valid(text, position)) =>
        \A r \in MoveResults(text, position) : r.outcome # "throw"

----------------------------------------------------------------------------
(* C12 *)

\* the four cases of the previous-word rule, from the counts of the segmentation
ExpectedPreviousWord(t, pos) ==
    LET p == pos.paragraphIndex
        s == pos.sentenceIndex
        w == pos.wordIndex
    IN IF w > 0 THEN Pos(p, s, w - 1)
       ELSE IF s > 0 THEN Pos(p, s - 1, NumWords(t, p, s - 1) - 1)
       ELSE IF p > 0
       THEN Pos(p - 1, NumSentences(t, p - 1) - 1,
                NumWords(t, p - 1, NumSentences(t, p - 1) - 1) - 1)
       ELSE pos

\* C12: movePreviousWord called on a rendered valid Position (p,s,w) leaves (p,s,w-1)
\* when w > 0, else (p,s-1,last word of sentence s-1) when s > 0, else (p-1, last
\* sentence of paragraph p-1, last word of that sentence) when p > 0, else the
\* Position unchanged.
C12_PreviousWordCases ==
    (pending = 0 /\ Valid(text, position)) =>
        moveToPreviousWord(text, position, position).pos
            = ExpectedPreviousWord(text, position)

----------------------------------------------------------------------------
(* C13 *)

\* n clamped into lo..hi
ClampInto(n, lo, hi) == IF n < lo THEN lo ELSE IF n > hi THEN hi ELSE n

\* target with the paragraph index clamped into the document, then the sentence
\* index into that paragraph, then the word index into that sentence
Clamped(t, target) ==
    LET p == ClampInto(target.paragraphIndex, 0, NumParagraphs(t) - 1)
        s == ClampInto(target.sentenceIndex, 0, NumSentences(t, p) - 1)
        w == ClampInto(target.wordIndex, 0, NumWords(t, p, s) - 1)
    IN Pos(p, s, w)

\* C13: a click on a displayed paragraph or sentence makes the Position (the one the
\* navigation holds, or at least the stored one) the clicked target clamped into the
\* segmentation of the document.
C13_ClickJumpsClamped ==
    [][\A p \in 0..Len(text), s \in 0..Len(text) :
          Click(p, s) => \/ position' = Clamped(text, Pos(p, s, 0))
                         \/ storePos' = Clamped(text, Pos(p, s, 0))
      ]_vars

----------------------------------------------------------------------------
(* C14 *)

\* C14: when a new document replaces the current one, the Position is (0,0,0)
\* afterwards, and so it is valid for the new document.
C14_NewDocumentResets ==
    [][(\E t \in Docs : SetContent(t))
       => (position' = StartPos /\ Valid(text', position'))
      ]_vars

----------------------------------------------------------------------------
(* C15 *)

\* C15: a render that commits one position request, and so runs the notify effect
\* once, notifies a Position other than the one of the render before: an operation
\* that halts at an edge causes no notification.
C15_NotifyOnlyOnChange ==
    [][(Render /\ pending = 1) => position # rendered]_vars

----------------------------------------------------------------------------
(* C16 *)

\* C16: while autoscroll is disabled no interval timer is armed, and no step taken
\* while it is disabled changes the Position: a tick scheduled while it was enabled
\* never runs moveToNextWord afterwards.
C16_DisabledTimerSilent ==
    /\ [](~isPlaying => ~timer)
    /\ [][~isPlaying => position' = position]_vars

\* autoscroll has moved the Position and has then been disabled
C16_Witness ==
    /\ ~isPlaying
    /\ ~timer
    /\ pending = 0
    /\ position # StartPos

----------------------------------------------------------------------------
(* C17 *)

----------------------------------------------------------------------------
(* C18 *)

\* C18: neither a tick nor a render changes isPlaying or disarms the timer, and at
\* the document end with autoscroll enabled the timer is armed and its tick leaves
\* the Position unchanged.
C18_EndKeepsPlaying ==
    /\ [][(WalkTick \/ Render) => (isPlaying' = isPlaying /\ timer' = timer)]_vars
    /\ []((isPlaying /\ pending = 0 /\ position = LastWordPos(text))
          => (timer /\ moveToNextWord(text, rendered, position).outcome = "noop"))

\* autoscroll has arrived at the end of a document of several paragraphs and is
\* still enabled
C18_Witness ==
    /\ isPlaying
    /\ timer
    /\ pending = 0
    /\ position = LastWordPos(text)
    /\ position.paragraphIndex > 0

----------------------------------------------------------------------------
(* C19 *)

\* C19: the armed timer's delay is 60000 / autoScrollSpeed ms (500 at 120 wpm, 250
\* at 240 wpm), also right after a change of speed while autoscroll runs, and the
\* change of speed itself leaves the Position unchanged.
C19_SpeedSetsCadence ==
    /\ [](timer => timerDelay * autoScrollSpeed = 60000)
    /\ []((timer /\ autoScrollSpeed = 120) => timerDelay = 500)
    /\ []((timer /\ autoScrollSpeed = 240) => timerDelay = 250)
    /\ [][(\E wpm \in Speeds : SetSpeed(wpm)) => position' = position]_vars

\* the speed was changed to 240 wpm in the middle of an autoscroll run
C19_Witness ==
    /\ timer
    /\ autoScrollSpeed = 240
    /\ timerDelay = 250
    /\ position # StartPos

----------------------------------------------------------------------------
(* C20 *)

\* C20: a request made through the autoscroll control while autoscroll is on leaves
\* isPlaying true and the timer armed.
C20_ToggleIdempotent ==
    [][(isPlaying /\ TogglePlay) => (isPlaying' /\ timer')]_vars

----------------------------------------------------------------------------
(* C21 *)

\* the adapter is idle although speech mode is on and no audio was ever produced:
\* the requests made so far have failed
IdleAfterFailure ==
    /\ isSpeaking
    /\ ~isLoading
    /\ requests = <<>>
    /\ ~audio.exists

\* C21: the failure of a request leaves the adapter idle (not loading, nothing
\* playing), and while it is idle after a failure no render starts a synthesis
\* request: only toggling speech off and on again does.
C21_NoRetryAfterFailure ==
    /\ [][\A i \in 1..Len(requests) :
            (~requests[i].aborted /\ Len(requests) = 1 /\ Resolve(i, FALSE))
            => (~isLoading' /\ ~audio'.playing)]_vars
    /\ [][(IdleAfterFailure /\ Render) => requests' = <<>>]_vars

----------------------------------------------------------------------------
(* C22 *)

\* generateSpeech has posted a request in this step
RequestStarted == Len(requests') > Len(requests)

\* C22: a synthesis request is started only by the step that enables speech or by
\* the completion of a playback, never by another Position change (a word-level
\* move) while a request is in flight or audio is playing.
C22_StartsOnlyOnEnableOrCompletion ==
    [][RequestStarted => ((~isSpeaking /\ isSpeaking') \/ AudioEnded)]_vars

----------------------------------------------------------------------------
(* C23 *)

\* the three cases of the next-sentence rule, from the counts of the segmentation
ExpectedNextSentence(t, pos) ==
    LET p == pos.paragraphIndex
        s == pos.sentenceIndex
    IN IF s + 1 < NumSentences(t, p) THEN Pos(p, s + 1, 0)
       ELSE IF p + 1 < NumParagraphs(t) /\ NumSentences(t, p + 1) >= 1
       THEN Pos(p + 1, 0, 0)
       ELSE pos

\* the three cases of the previous-sentence rule
ExpectedPreviousSentence(t, pos) ==
    LET p == pos.paragraphIndex
        s == pos.sentenceIndex
    IN IF s > 0 THEN Pos(p, s - 1, 0)
       ELSE IF p > 0 /\ NumSentences(t, p - 1) >= 1
       THEN Pos(p - 1, NumSentences(t, p - 1) - 1, 0)
       ELSE pos

\* C23: moveToNextSentence called on a rendered valid Position (p,s,w) gives (p,s+1,0) when
\* s is not the last sentence of the paragraph, else (p+1,0,0) when paragraph p+1
\* exists and has a sentence, else the Position unchanged; movePreviousSentence gives
\* (p,s-1,0) when s > 0, else the last sentence of paragraph p-1 when that paragraph
\* exists and has sentences, else the Position unchanged.  Neither throws.
C23_SentenceMoveCases ==
    (pending = 0 /\ Valid(text, position)) =>
        LET next == moveToNextSentence(text, position, position)
            previous == movePreviousSentence(text, position, position)
        IN /\ next.outcome # "throw"
           /\ next.pos = ExpectedNextSentence(text, position)
           /\ previous.outcome # "throw"
           /\ previous.pos = ExpectedPreviousSentence(text, position)

\* moveToNextSentence has just moved from a word that is not the last of its sentence
\* to the first word of the next sentence of the paragraph
C23_Witness ==
    /\ pending = 1
    /\ Valid(text, rendered)
    /\ rendered.wordIndex + 1 <
           NumWords(text, rendered.paragraphIndex, rendered.sentenceIndex)
    /\ position = Pos(rendered.paragraphIndex, rendered.sentenceIndex + 1, 0)

----------------------------------------------------------------------------
(* C24 *)

ExpectedNextParagraph(t, pos) ==
    IF pos.paragraphIndex + 1 < NumParagraphs(t)
    THEN Pos(pos.paragraphIndex + 1, 0, 0)
    ELSE pos

ExpectedPreviousParagraph(t, pos) ==
    IF pos.paragraphIndex > 0
    THEN Pos(pos.paragraphIndex - 1, 0, 0)
    ELSE pos

\* the results of the two paragraph moves follow the rule: first word of the
\* neighbour paragraph, or the Position unchanged at either end of the document
C24_ParagraphMoveRule ==
    (pending = 0 /\ Valid(text, position)) =>
        /\ moveToNextParagraph(text, position, position).pos
               = ExpectedNextParagraph(text, position)
        /\ movePreviousParagraph(text, position, position).pos
               = ExpectedPreviousParagraph(text, position)

\* C24: moveToNextParagraph called on a rendered valid Position gives (p+1,0,0) when
\* p is not the last paragraph and movePreviousParagraph gives (p-1,0,0) when p > 0,
\* each leaves the Position unchanged otherwise, and in both cases the resulting
\* Position is valid for the destination paragraph.
C24_ParagraphMoveCases ==
    (pending = 0 /\ Valid(text, position)) =>
        /\ C24_ParagraphMoveRule
        /\ Valid(text, moveToNextParagraph(text, position, position).pos)
        /\ Valid(text, movePreviousParagraph(text, position, position).pos)

----------------------------------------------------------------------------
(* C25 *)

\* C25: at every rendered valid Position the text the speech adapter submits,
\* getCurrentText(), is the sentence the navigation layer addresses there:
\* splitIntoSentences(paragraphs[paragraphIndex])[sentenceIndex].
C25_SpokenIsCurrentSentence ==
    Valid(text, rendered) =>
        getCurrentText(text, rendered)
            = At(getCurrentSentences(text, rendered), rendered.sentenceIndex)

----------------------------------------------------------------------------
(* C26 *)

\* one step of the granularity of key e from Position pos
OneStep(e, pos) ==
    IF e.key = "ArrowRight"
    THEN IF e.modifier = "ctrl" THEN ExpectedNextParagraph(text, pos)
         ELSE IF e.modifier = "shift" THEN ExpectedNextSentence(text, pos)
         ELSE ExpectedNextWord(text, pos)
    ELSE IF e.key = "ArrowLeft"
    THEN IF e.modifier = "ctrl" THEN ExpectedPreviousParagraph(text, pos)
         ELSE IF e.modifier = "shift" THEN ExpectedPreviousSentence(text, pos)
         ELSE ExpectedPreviousWord(text, pos)
    ELSE pos

\* the first handler of a key press makes the one step of the matching granularity
\* (the space bar: flips isPlaying and leaves the Position); a move that throws is
\* left to C11
C26_FirstHandlerSteps ==
    [][\A e \in Keys :
          (pending = 0 /\ Valid(text, position) /\ KeyDown(e)
              /\ (e.key # " " => KeyMove(e).outcome # "throw"))
          => /\ position' = OneStep(e, position)
             /\ isPlaying' = IF e.key = " " THEN ~isPlaying ELSE isPlaying
      ]_vars

\* the second handler of the same key press adds nothing to it
C26_SecondHandlerAddsNothing ==
    [][WindowKeyDown => (position' = position /\ isPlaying' = isPlaying)]_vars

\* C26: a key press that both the container's handler and the window listener
\* receive makes exactly one navigation step of the matching granularity (Alt word,
\* Shift sentence, Ctrl paragraph), and the space bar flips play/pause exactly once.
C26_OneStepPerKeyPress ==
    /\ C26_FirstHandlerSteps
    /\ C26_SecondHandlerAddsNothing

----------------------------------------------------------------------------
(* C27 *)

\* "Dr. Smith arrived at 9 A.M." and "He brought Mr. Jones."
C27_Expected ==
    << <<"D", "r", ".", " ", "S", "m", "i", "t", "h", " ", "a", "r", "r", "i", "v",
         "e", "d", " ", "a", "t", " ", "9", " ", "A", ".", "M", ".">>,
       <<"H", "e", " ", "b", "r", "o", "u", "g", "h", "t", " ", "M", "r", ".", " ",
         "J", "o", "n", "e", "s", ".">> >>

\* C27: splitIntoSentences("Dr. Smith arrived at 9 A.M. He brought Mr. Jones.")
\* returns exactly the two sentences "Dr. Smith arrived at 9 A.M." and
\* "He brought Mr. Jones.".
C27_TwoSentences ==
    text = CaseTwoAbbreviations
        => getCurrentSentences(text, StartPos) = C27_Expected

----------------------------------------------------------------------------
(* C28 *)

\* "First sentence!", "Second sentence?" and "Last sentence."
C28_Expected ==
    << <<"F", "i", "r", "s", "t", " ", "s", "e", "n", "t", "e", "n", "c", "e", "!">>,
       <<"S", "e", "c", "o", "n", "d", " ", "s", "e", "n", "t", "e", "n", "c", "e",
         "?">>,
       <<"L", "a", "s", "t", " ", "s", "e", "n", "t", "e", "n", "c", "e", ".">> >>

\* the non-empty trimmed parts of a paragraph, in order
PartsOf(par) ==
    LET parts == SplitAfterEnd(Trim(par) \o <<SP>>)
        kept == {i \in 1..Len(parts) : Trim(parts[i]) # <<>>}
    IN [k \in 1..Cardinality(kept) |-> Trim(parts[Nth(kept, k)])]

\* the part ends in '.', '!' or '?' and matches no abbreviation pattern
Closes(part) == part[Len(part)] \in {".", "!", "?"} /\ ~IsAbbreviation(part)

\* sentence ends with the part, as a whole sentence or after a space
EndsWithPart(sentence, part) ==
    /\ Len(part) <= Len(sentence)
    /\ SubSeq(sentence, Len(sentence) - Len(part) + 1, Len(sentence)) = part
    /\ (Len(part) < Len(sentence) => sentence[Len(sentence) - Len(part)] = SP)

\* C28: splitIntoSentences("First sentence! Second sentence? Last sentence.") returns
\* the three sentences, each with its terminal punctuation; and in every paragraph of
\* the document each part that ends in '!', '?' or '.' and matches no abbreviation
\* pattern closes a sentence: the sentences are as many as those parts, plus one when
\* the paragraph ends with a part that closes none, and the k-th closing part ends
\* the k-th sentence.
C28_PunctuationCloses ==
    /\ text = CaseMixedEndings => getCurrentSentences(text, StartPos) = C28_Expected
    /\ \A p \in 0..(NumParagraphs(text) - 1) :
          LET parts == PartsOf(At(paragraphs(text), p))
              sentences == splitIntoSentences(At(paragraphs(text), p))
              closing == {i \in 1..Len(parts) : Closes(parts[i])}
              rest == IF Len(parts) > 0 /\ ~Closes(parts[Len(parts)]) THEN 1 ELSE 0
          IN /\ Len(sentences) = Cardinality(closing) + rest
             /\ \A k \in 1..Cardinality(closing) :
                   EndsWithPart(sentences[k], parts[Nth(closing, k)])

\* navigation stands on the third sentence of the mixed-endings case
C28_Witness ==
    /\ text = CaseMixedEndings
    /\ rendered.sentenceIndex = 2
    /\ position.sentenceIndex = 2

----------------------------------------------------------------------------
(* C29 *)

\* C29: paragraph segmentation drops empty paragraphs: every paragraph of the
\* document, and so the paragraph every Position of navigation refers to, holds
\* some text (a character that is not whitespace).
C29_NoEmptyParagraph ==
    /\ \A p \in 0..(NumParagraphs(text) - 1) : Trim(At(paragraphs(text), p)) # <<>>
    /\ Trim(getCurrentParagraph(text, position)) # <<>>

----------------------------------------------------------------------------
(* C30 *)

\* the resolution of an aborted request starts no playback and moves no Position
C30_NoPlaybackNoMove ==
    [][\A i \in 1..Len(requests), ok \in BOOLEAN :
          (requests[i].aborted /\ Resolve(i, ok))
          => (audio' = audio /\ position' = position /\ rendered' = rendered
                 /\ storePos' = storePos)
      ]_vars

\* C30: a superseded (aborted) request is discarded silently: when it settles, the
\* adapter's state is what it was, as after no failure (the request that superseded
\* it is still loading), no playback starts and no Position changes.
C30_AbortedDiscarded ==
    /\ C30_NoPlaybackNoMove
    /\ [][\A i \in 1..Len(requests), ok \in BOOLEAN :
            (requests[i].aborted /\ Resolve(i, ok)) => isLoading' = isLoading
         ]_vars

----------------------------------------------------------------------------
(* C31 *)

\* a dispatch of UPDATE_POSITION by a click leaves the Position of useTextNavigation,
\* and the Position its closures hold, as they were
C31_NoFeedback ==
    [][(\E p \in 0..Len(text), s \in 0..Len(text) : Click(p, s))
          => (position' = position /\ rendered' = rendered /\ pending' = pending)
      ]_vars

\* C31: the store only observes.  A step that changes progress.position never
\* changes the Position of the navigation state machine, and the render that
\* commits accepted moves hands the new Position to the store.
C31_StoreObserves ==
    /\ C31_NoFeedback
    /\ [][storePos' # storePos => position' = position]_vars
    /\ [][Render => (storePos' = position' /\ storePos' = rendered')]_vars

\* a move has been accepted and rendered, and the store holds the new Position
C31_Witness ==
    /\ pending = 0
    /\ rendered # StartPos
    /\ storePos = rendered

----------------------------------------------------------------------------
(* C32 *)

\* s ends with a title, with a capital letter and a period, or with a digit and a
\* period
EndsWithPattern(s) ==
    \/ HasAt(s, Len(s) - 2, <<"M", "r", ".">>)
    \/ HasAt(s, Len(s) - 3, <<"M", "r", "s", ".">>)
    \/ HasAt(s, Len(s) - 2, <<"D", "r", ".">>)
    \/ HasAt(s, Len(s) - 2, <<"M", "s", ".">>)
    \/ (Len(s) >= 2 /\ s[Len(s)] = "." /\ (IsUpper(s[Len(s) - 1]) \/ IsDigit(s[Len(s) - 1])))

\* an abbreviation pattern stands immediately before the terminating punctuation of
\* the part: it ends with that punctuation or just before it
AbbreviationBeforeEnd(part) ==
    \/ EndsWithPattern(part)
    \/ EndsWithPattern(SubSeq(part, 1, Len(part) - 1))

\* C32: in every paragraph of the document, a part that ends in '.', '!' or '?' with
\* no abbreviation pattern immediately before that punctuation closes a sentence
\* (some sentence of the paragraph ends with it); it is not merged into the next part.
C32_MergedOnlyAfterAbbreviation ==
    \A p \in 0..(NumParagraphs(text) - 1) :
        LET parts == PartsOf(At(paragraphs(text), p))
            sentences == splitIntoSentences(At(paragraphs(text), p))
        IN \A i \in 1..Len(parts) :
              (EndsWithEnd(parts[i]) /\ ~AbbreviationBeforeEnd(parts[i]))
              => \E k \in 1..Len(sentences) : EndsWithPart(sentences[k], parts[i])

----------------------------------------------------------------------------
(* C33 *)

\* the words of the sentences ss, one sentence after the other
RECURSIVE WordsOfAll(_)
WordsOfAll(ss) ==
    IF ss = <<>> THEN <<>> ELSE MatchWords(Head(ss)) \o WordsOfAll(Tail(ss))

\* C33: for every paragraph of the document the words of the sentences that
\* splitIntoSentences returns, taken in order, are the words of the paragraph, and
\* no returned sentence is empty or whitespace only.
C33_WordsPreserved ==
    \A p \in 0..(NumParagraphs(text) - 1) :
        LET paragraph == At(paragraphs(text), p)
            sentences == splitIntoSentences(paragraph)
        IN /\ WordsOfAll(sentences) = MatchWords(paragraph)
           /\ \A k \in 1..Len(sentences) : Trim(sentences[k]) # <<>>

\* navigation has reached the second sentence of a paragraph whose first sentence
\* was merged from two parts
C33_Witness ==
    /\ rendered.sentenceIndex = 1
    /\ Len(PartsOf(getCurrentParagraph(text, rendered))) >
           Len(getCurrentSentences(text, rendered))

----------------------------------------------------------------------------
(* C34 *)

\* C34: isLoading is true exactly when a synthesis request is outstanding, be it
\* read as "in flight" or as "in flight and not aborted"; in particular it stays
\* true when an aborted request settles while the request that superseded it is in
\* flight.
C34_LoadingTracksRequest ==
    \/ (isLoading <=> Len(requests) > 0)
    \/ (isLoading <=> Outstanding # {})

----------------------------------------------------------------------------
(* C35 *)

\* C35: at most one interval timer of the auto-scroll effect exists, and none while
\* isPlaying is false: each run of the effect (Play/Pause, a new speed, the render
\* of a move, which makes a new moveToNextWord) clears the interval of the run
\* before it.
C35_OneTimer ==
    /\ intervals <= 1
    /\ ~isPlaying => intervals = 0
    /\ timer <=> intervals = 1

\* autoscroll is on, a tick has moved the Position and the render of that move has
\* run the effect again, at a speed set while playing
C35_Witness ==
    /\ isPlaying
    /\ intervals = 1
    /\ pending = 0
    /\ rendered # StartPos
    /\ autoScrollSpeed # defaultAutoScrollSpeed

----------------------------------------------------------------------------
(* C36 *)

\* C36: once every queued move has been rendered and notified, progress.position
\* of the store is the Position useTextNavigation holds.
C36_PublishedAgrees ==
    pending = 0 => storePos = position

----------------------------------------------------------------------------
(* C37 *)

\* C37: once every queued move has been rendered, the page shown is the page of the
\* current paragraph: currentPage = floor(paragraphIndex / PARAGRAPHS_PER_PAGE), be
\* the current Position the currentPosition TextDisplay is given or the one of the
\* store.
C37_PageHoldsParagraph ==
    pending = 0 =>
        \/ currentPage = rendered.paragraphIndex \div PARAGRAPHS_PER_PAGE
        \/ currentPage = storePos.paragraphIndex \div PARAGRAPHS_PER_PAGE

\* the same with no page turned: the page effect alone keeps the page on the
\* current paragraph, whatever the moves
C37_PageFollowsMoves ==
    [][~(PreviousPage \/ NextPage)
          => (currentPage = rendered.paragraphIndex \div PARAGRAPHS_PER_PAGE
                 => currentPage' = rendered'.paragraphIndex \div PARAGRAPHS_PER_PAGE)
      ]_vars

====
